---- MODULE Spec2Model ----
(***************************************************************************)
(* Model of the SVG play-diagram generator of the NFL playbook simulator    *)
(* (src/app.py, lines 27-298).                                              *)
(*                                                                          *)
(* A markup string is modelled as the sequence of the elements it holds,    *)
(* each element a record of the tag and the attribute values the f-string   *)
(* interpolates or fixes.  The constant whitespace of the templates is left *)
(* out; numbers stay numbers (decimal formatting is injective).             *)
(***************************************************************************)
EXTENDS Integers, Sequences, FiniteSets, TLC

VARIABLES
    formation,       \* argument of the most recent generate_play_diagram call
    coverage,        \* argument of the most recent call
    concept,         \* argument of the most recent call (None when omitted)
    svg,             \* the string the most recent call returned
    base_positions,  \* the dict bound to base_positions in the most recent
                     \* frame of generate_defensive_formation_svg, as it returned
    positions,       \* the key of base_positions whose value the local name
                     \* positions is bound to (positions aliases that inner dict)
    called,          \* TRUE once generate_play_diagram has returned at least once
    pinned           \* the caller's record of an earlier call it kept: the
                     \* arguments, the output, and whether a later call ran a
                     \* safety-adjusting coverage on the same layout

vars == <<formation, coverage, concept, svg, base_positions, positions, called, pinned>>

-----------------------------------------------------------------------------
(* Python values and dict operations *)

\* the value of an omitted concept argument (concept=None, line 277)
None == "<None>"

\* truth value of the concept argument in `if concept:` (line 294)
Truthy(c) == c # None /\ c # ""

\* dict.get(key, default)
Get(d, key, default) == IF key \in DOMAIN d THEN d[key] ELSE default

\* d[key] = value on a dict
DictSet(d, key, value) ==
    [k \in (DOMAIN d) \cup {key} |-> IF k = key THEN value ELSE d[k]]

RECURSIVE Flatten(_)
\* concatenation of a sequence of sequences (svg += ... in a loop)
Flatten(ss) == IF ss = <<>> THEN <<>> ELSE Head(ss) \o Flatten(Tail(ss))

-----------------------------------------------------------------------------
(* the canvas *)

CanvasWidth == 400
CanvasHeight == 250

-----------------------------------------------------------------------------
(* generate_field_svg, lines 27-36 *)

FieldLine(x1, y1, x2, y2, w, dash) ==
    [tag |-> "line", x1 |-> x1, y1 |-> y1, x2 |-> x2, y2 |-> y2,
     stroke |-> "white", stroke_width |-> w, dash |-> dash]

generate_field_svg ==
    << [tag |-> "rect", x |-> 0, y |-> 0, width |-> 400, height |-> 250,
        fill |-> "#2d5a27"],
       FieldLine(0, 50, 400, 50, 2, ""),
       FieldLine(0, 100, 400, 100, 2, ""),
       FieldLine(0, 150, 400, 150, 2, ""),
       FieldLine(0, 200, 400, 200, 2, ""),
       FieldLine(200, 0, 200, 250, 1, "5,5") >>

-----------------------------------------------------------------------------
(* generate_offensive_formation_svg, lines 38-70 *)

\* the positions dict in insertion order (dict iteration order)
offense_positions ==
    << <<"C", <<200, 150>> >>, <<"LG", <<170, 150>> >>, <<"RG", <<230, 150>> >>,
       <<"LT", <<140, 150>> >>, <<"RT", <<260, 150>> >>, <<"QB", <<200, 175>> >>,
       <<"RB", <<200, 200>> >>, <<"WR1", <<50, 150>> >>, <<"WR2", <<350, 150>> >>,
       <<"TE", <<290, 150>> >>, <<"SLOT", <<100, 150>> >> >>

OffCircle(x, y, fill) ==
    [tag |-> "circle", cx |-> x, cy |-> y, r |-> 10, fill |-> fill,
     stroke |-> "white", stroke_width |-> 2]

OffenseMarker(pos, x, y) ==
    IF pos \in {"WR1", "WR2", "SLOT"} THEN OffCircle(x, y, "#1e90ff")
    ELSE IF pos = "QB" THEN OffCircle(x, y, "#ffd700")
    ELSE IF pos = "RB" THEN OffCircle(x, y, "#32cd32")
    ELSE IF pos = "TE" THEN OffCircle(x, y, "#1e90ff")
    ELSE [tag |-> "rect", x |-> x - 8, y |-> y - 8, width |-> 16, height |-> 16,
          fill |-> "#4169e1", stroke |-> "white", stroke_width |-> 2]

generate_offensive_formation_svg ==
    [i \in 1..Len(offense_positions) |->
        OffenseMarker(offense_positions[i][1],
                      offense_positions[i][2][1], offense_positions[i][2][2])]

-----------------------------------------------------------------------------
(* generate_defensive_formation_svg, lines 72-138 *)

\* the value of the dict literal of lines 76-103
base_positions_literal ==
    "4-3" :>
        [ DL |-> << <<155, 135>>, <<185, 135>>, <<215, 135>>, <<245, 135>> >>,
          LB |-> << <<140, 110>>, <<200, 105>>, <<260, 110>> >>,
          CB |-> << <<50, 100>>, <<350, 100>> >>,
          S  |-> << <<150, 60>>, <<250, 60>> >> ] @@
    "3-4" :>
        [ DL |-> << <<170, 135>>, <<200, 135>>, <<230, 135>> >>,
          LB |-> << <<120, 115>>, <<165, 110>>, <<235, 110>>, <<280, 115>> >>,
          CB |-> << <<50, 100>>, <<350, 100>> >>,
          S  |-> << <<150, 60>>, <<250, 60>> >> ] @@
    "nickel" :>
        [ DL |-> << <<155, 135>>, <<185, 135>>, <<215, 135>>, <<245, 135>> >>,
          LB |-> << <<170, 110>>, <<230, 110>> >>,
          CB |-> << <<50, 100>>, <<350, 100>> >>,
          SLOT_CB |-> << <<100, 105>> >>,
          S  |-> << <<150, 50>>, <<250, 50>> >> ] @@
    "dime" :>
        [ DL |-> << <<155, 135>>, <<185, 135>>, <<215, 135>>, <<245, 135>> >>,
          LB |-> << <<200, 105>> >>,
          CB |-> << <<50, 100>>, <<350, 100>> >>,
          SLOT_CB |-> << <<100, 105>>, <<300, 105>> >>,
          S  |-> << <<150, 45>>, <<250, 45>> >> ]

\* a table that outlives the frame: the dict is built once and every later
\* call works on the dict the previous call left
FrameTableShared == IF called THEN base_positions ELSE base_positions_literal

\* the dict the local name base_positions is bound to when the frame reaches
\* line 106: the literal is evaluated anew on every call
FrameTable == base_positions_literal

\* falls back to "3-4" instead of "4-3"
LayoutKeyOther(table, f) == IF f \in DOMAIN table THEN f ELSE "3-4"

\* line 106: base_positions.get(formation, base_positions["4-3"]); the key of
\* the inner dict that positions is bound to
LayoutKey(table, f) == IF f \in DOMAIN table THEN f ELSE "4-3"

\* positions[group] = value, seen through the table that holds the inner dict
SetGroup(table, key, group, value) ==
    [table EXCEPT ![key] = DictSet(table[key], group, value)]

\* the box alignment of cover_0 overwrites the linebackers too
AdjustSafetiesWrongGroup(table, key, cov) ==
    IF cov \in {"cover_2", "cover_2_man", "tampa_2", "cover_4", "cover_6"}
    THEN SetGroup(table, key, "S", << <<120, 40>>, <<280, 40>> >>)
    ELSE IF cov \in {"cover_3", "cover_3_sky", "cover_3_cloud", "cover_1", "cover_1_robber"}
    THEN SetGroup(table, key, "S", << <<200, 35>>, <<250, 80>> >>)
    ELSE IF cov = "cover_0"
    THEN SetGroup(SetGroup(table, key, "S", << <<180, 95>>, <<220, 95>> >>),
                  key, "LB", << <<180, 95>>, <<220, 95>> >>)
    ELSE table

\* cover_0 gets the single-high alignment
AdjustSafetiesWrongBox(table, key, cov) ==
    IF cov \in {"cover_2", "cover_2_man", "tampa_2", "cover_4", "cover_6"}
    THEN SetGroup(table, key, "S", << <<120, 40>>, <<280, 40>> >>)
    ELSE IF cov \in {"cover_3", "cover_3_sky", "cover_3_cloud", "cover_1", "cover_1_robber", "cover_0"}
    THEN SetGroup(table, key, "S", << <<200, 35>>, <<250, 80>> >>)
    ELSE table

\* lines 109-114: the table after the safety adjustment
AdjustSafeties(table, key, cov) ==
    IF cov \in {"cover_2", "cover_2_man", "tampa_2", "cover_4", "cover_6"}
    THEN SetGroup(table, key, "S", << <<120, 40>>, <<280, 40>> >>)
    ELSE IF cov \in {"cover_3", "cover_3_sky", "cover_3_cloud", "cover_1", "cover_1_robber"}
    THEN SetGroup(table, key, "S", << <<200, 35>>, <<250, 80>> >>)
    ELSE IF cov = "cover_0"
    THEN SetGroup(table, key, "S", << <<180, 95>>, <<220, 95>> >>)
    ELSE table

\* one triangle of lines 120-136
Triangle(p, fill) ==
    [tag |-> "polygon",
     points |-> << <<p[1], p[2] - 10>>, <<p[1] - 10, p[2] + 8>>, <<p[1] + 10, p[2] + 8>> >>,
     fill |-> fill, stroke |-> "white", stroke_width |-> 2]

Triangles(ps, fill) == [i \in 1..Len(ps) |-> Triangle(ps[i], fill)]

\* the slot-corner loop is missing
DrawDefenseNoSlot(pos) ==
    Triangles(Get(pos, "DL", <<>>), "#dc143c")
    \o Triangles(Get(pos, "LB", <<>>), "#ff6347")
    \o Triangles(Get(pos, "CB", <<>>), "#ff4500")
    \o Triangles(Get(pos, "S", <<>>), "#ff8c00")

\* lines 116-138: the five loops over positions
DrawDefense(pos) ==
    Triangles(Get(pos, "DL", <<>>), "#dc143c")
    \o Triangles(Get(pos, "LB", <<>>), "#ff6347")
    \o Triangles(Get(pos, "CB", <<>>), "#ff4500")
    \o Triangles(Get(pos, "SLOT_CB", <<>>), "#ff4500")
    \o Triangles(Get(pos, "S", <<>>), "#ff8c00")

\* the frame of generate_defensive_formation_svg when it returns: its table,
\* the key positions aliases, and the returned string
DefensiveFrame(f, cov) ==
    LET key == LayoutKey(FrameTable, f)
        table == AdjustSafeties(FrameTable, key, cov)
    IN  [base_positions |-> table, positions |-> key, svg |-> DrawDefense(table[key])]

generate_defensive_formation_svg(f, cov) == DefensiveFrame(f, cov).svg

-----------------------------------------------------------------------------
(* generate_coverage_zones_svg, lines 140-176 *)

Zone(type, x, y, w, h, color) ==
    [type |-> type, x |-> x, y |-> y, w |-> w, h |-> h, color |-> color]

\* the zones dict of lines 143-170
zones ==
    [ cover_0 |-> <<>>,
      cover_1 |-> << Zone("deep", 50, 0, 300, 60, "rgba(255,165,0,0.3)") >>,
      cover_2 |-> << Zone("deep", 50, 0, 150, 50, "rgba(255,165,0,0.3)"),
                     Zone("deep", 200, 0, 150, 50, "rgba(255,165,0,0.3)"),
                     Zone("flat", 0, 50, 80, 60, "rgba(255,69,0,0.3)"),
                     Zone("flat", 320, 50, 80, 60, "rgba(255,69,0,0.3)") >>,
      tampa_2 |-> << Zone("deep", 50, 0, 120, 50, "rgba(255,165,0,0.3)"),
                     Zone("deep", 170, 0, 60, 70, "rgba(255,140,0,0.3)"),
                     Zone("deep", 230, 0, 120, 50, "rgba(255,165,0,0.3)") >>,
      cover_3 |-> << Zone("deep", 0, 0, 133, 60, "rgba(255,69,0,0.3)"),
                     Zone("deep", 133, 0, 134, 60, "rgba(255,165,0,0.3)"),
                     Zone("deep", 267, 0, 133, 60, "rgba(255,69,0,0.3)") >>,
      cover_4 |-> << Zone("deep", 0, 0, 100, 60, "rgba(255,69,0,0.3)"),
                     Zone("deep", 100, 0, 100, 60, "rgba(255,165,0,0.3)"),
                     Zone("deep", 200, 0, 100, 60, "rgba(255,165,0,0.3)"),
                     Zone("deep", 300, 0, 100, 60, "rgba(255,69,0,0.3)") >> ]

\* line 174
ZoneRect(z) ==
    [tag |-> "rect", x |-> z.x, y |-> z.y, width |-> z.w, height |-> z.h,
     fill |-> z.color]

\* an unknown coverage falls back to the cover_3 zones
generate_coverage_zones_svg_default(cov) ==
    LET zs == Get(zones, cov, zones["cover_3"])
    IN  [i \in 1..Len(zs) |-> ZoneRect(zs[i])]

\* lines 172-176
generate_coverage_zones_svg(cov) ==
    LET zs == Get(zones, cov, <<>>)
    IN  [i \in 1..Len(zs) |-> ZoneRect(zs[i])]

-----------------------------------------------------------------------------
(* generate_soft_spots_svg, lines 178-226 *)

Spot(x, y, label) == [x |-> x, y |-> y, label |-> label]

\* the spots dict of lines 181-213
spots ==
    [ cover_0 |-> << Spot(200, 30, "Deep - no help!") >>,
      cover_1 |-> << Spot(100, 80, "Crossers"), Spot(300, 80, "Crossers") >>,
      cover_2 |-> << Spot(200, 25, "Hole Shot"), Spot(70, 15, "Corner"),
                     Spot(330, 15, "Corner") >>,
      tampa_2 |-> << Spot(120, 40, "Seam"), Spot(280, 40, "Seam") >>,
      cover_3 |-> << Spot(100, 50, "Seam"), Spot(300, 50, "Seam"),
                     Spot(50, 90, "Flat"), Spot(350, 90, "Flat") >>,
      cover_4 |-> << Spot(50, 90, "Flat"), Spot(350, 90, "Flat"),
                     Spot(150, 85, "Curl"), Spot(250, 85, "Curl") >>,
      cover_2_man |-> << Spot(200, 75, "Crossers") >> ]

\* lines 218-224: the pulsing circle and its label
SpotMarkup(sp) ==
    << [tag |-> "circle", cx |-> sp.x, cy |-> sp.y, r |-> 15,
        fill |-> "rgba(0,255,0,0.4)", stroke |-> "#00ff00", stroke_width |-> 2,
        animate |-> << <<"r", "12;18;12">>, <<"opacity", "0.6;0.3;0.6">> >>],
       [tag |-> "text", x |-> sp.x, y |-> sp.y + 30, anchor |-> "middle",
        fill |-> "#00ff00", font_size |-> 10, label |-> sp.label] >>

\* lines 215-226
generate_soft_spots_svg(cov) ==
    LET ss == Get(spots, cov, <<>>)
    IN  Flatten([i \in 1..Len(ss) |-> SpotMarkup(ss[i])])

-----------------------------------------------------------------------------
(* generate_route_svg, lines 228-275 *)

Route(from, to, type) == [from |-> from, to |-> to, type |-> type]

\* the routes dict of lines 231-263
routes ==
    [ four_verticals |-> << Route(<<50, 150>>, <<50, 20>>, "go"),
                            Route(<<100, 150>>, <<130, 20>>, "seam"),
                            Route(<<290, 150>>, <<270, 20>>, "seam"),
                            Route(<<350, 150>>, <<350, 20>>, "go") >>,
      curl_flat |-> << Route(<<50, 150>>, <<70, 80>>, "curl"),
                       Route(<<100, 150>>, <<50, 110>>, "flat") >>,
      smash |-> << Route(<<50, 150>>, <<60, 110>>, "hitch"),
                   Route(<<100, 150>>, <<40, 40>>, "corner") >>,
      mesh |-> << Route(<<50, 150>>, <<250, 110>>, "cross"),
                  Route(<<350, 150>>, <<150, 110>>, "cross") >>,
      levels |-> << Route(<<50, 150>>, <<200, 115>>, "shallow"),
                    Route(<<350, 150>>, <<200, 80>>, "dig") >>,
      flood |-> << Route(<<50, 150>>, <<30, 20>>, "clear"),
                   Route(<<100, 150>>, <<60, 50>>, "corner"),
                   Route(<<200, 200>>, <<40, 120>>, "flat") >>,
      slant_flat |-> << Route(<<50, 150>>, <<120, 100>>, "slant"),
                        Route(<<100, 150>>, <<50, 120>>, "flat") >> ]

\* origin and destination unpacked as (y, x)
RouteLineSwapped(rt) ==
    [tag |-> "line", x1 |-> rt.from[2], y1 |-> rt.from[1],
     x2 |-> rt.to[2], y2 |-> rt.to[1],
     stroke |-> "#00bfff", stroke_width |-> 3, marker_end |-> "url(#arrowhead)"]

\* lines 267-273
RouteLine(rt) ==
    [tag |-> "line", x1 |-> rt.from[1], y1 |-> rt.from[2],
     x2 |-> rt.to[1], y2 |-> rt.to[2],
     stroke |-> "#00bfff", stroke_width |-> 3, marker_end |-> "url(#arrowhead)"]

\* an unknown concept falls back to four_verticals
generate_route_svg_default(k) ==
    LET rs == Get(routes, k, routes["four_verticals"])
    IN  [i \in 1..Len(rs) |-> RouteLine(rs[i])]

\* lines 265-275
generate_route_svg(k) ==
    LET rs == Get(routes, k, <<>>)
    IN  [i \in 1..Len(rs) |-> RouteLine(rs[i])]

-----------------------------------------------------------------------------
(* generate_play_diagram, lines 277-298 *)

\* lines 281-286: the opening tag and the arrowhead marker definition
svg_header ==
    << [tag |-> "svg", viewBox |-> <<0, 0, 400, 250>>,
        xmlns |-> "http://www.w3.org/2000/svg"],
       [tag |-> "defs", marker |-> "arrowhead", markerWidth |-> 10,
        markerHeight |-> 7, refX |-> "9", refY |-> "3.5", orient |-> "auto",
        shape |-> "0 0, 10 3.5, 0 7", fill |-> "#00bfff"] >>

\* line 297
svg_close == << [tag |-> "/svg"] >>

\* the defensive markers are interpolated before the offensive ones
generate_play_diagram_swapped(f, cov, k) ==
    svg_header
    \o generate_field_svg
    \o generate_coverage_zones_svg(cov)
    \o generate_soft_spots_svg(cov)
    \o generate_defensive_formation_svg(f, cov)
    \o generate_offensive_formation_svg
    \o (IF Truthy(k) THEN generate_route_svg(k) ELSE <<>>)
    \o svg_close

\* lines 280-298: the returned string
generate_play_diagram(f, cov, k) ==
    svg_header
    \o generate_field_svg
    \o generate_coverage_zones_svg(cov)
    \o generate_soft_spots_svg(cov)
    \o generate_offensive_formation_svg
    \o generate_defensive_formation_svg(f, cov)
    \o (IF Truthy(k) THEN generate_route_svg(k) ELSE <<>>)
    \o svg_close

-----------------------------------------------------------------------------
(* the arguments the calls are made with *)

\* the keys of the layout table
FormationKeys == DOMAIN base_positions_literal

\* the keys lines 109-113 test for
AdjustedCoverages ==
    {"cover_2", "cover_2_man", "tampa_2", "cover_4", "cover_6",
     "cover_3", "cover_3_sky", "cover_3_cloud", "cover_1", "cover_1_robber",
     "cover_0"}

\* every coverage key some table of the code names
CoverageKeys == AdjustedCoverages \cup DOMAIN zones \cup DOMAIN spots

\* the keys of the route table
ConceptKeys == DOMAIN routes

\* keys no table holds
UnknownFormations == {"5-2", "goal_line"}
UnknownCoverages == {"prevent", "cover_9"}
UnknownConcepts == {"wheel", "hail_mary"}

Formations == FormationKeys \cup UnknownFormations
Coverages == CoverageKeys \cup UnknownCoverages
Concepts == ConceptKeys \cup UnknownConcepts \cup {None, ""}

\* the arguments of the runs that compare calls: the default, another known and
\* an unknown formation, one coverage for every branch of lines 109-114, and a
\* known, an unknown and no concept
SeqFormations == {"4-3", "dime", "5-2"}
SeqCoverages == {"cover_2", "cover_3", "cover_0", "prevent"}
SeqConcepts == {None, "mesh", "wheel"}

-----------------------------------------------------------------------------
(* the state machine *)

NoPin == [set |-> FALSE, formation |-> "", coverage |-> "", concept |-> None,
          svg |-> <<>>, adjusted_since |-> FALSE]

\* one call generate_play_diagram(f, cov, k), from entry to return
Call(f, cov, k) ==
    LET frame == DefensiveFrame(f, cov)
    IN  /\ formation' = f
        /\ coverage' = cov
        /\ concept' = k
        /\ svg' = generate_play_diagram(f, cov, k)
        /\ base_positions' = frame.base_positions
        /\ positions' = frame.positions
        /\ called' = TRUE

\* a single call: the arguments are drawn first, the call is applied to them
Init ==
    /\ formation \in Formations
    /\ coverage \in Coverages
    /\ concept \in Concepts
    /\ svg = <<>>
    /\ base_positions = <<>>
    /\ positions = ""
    /\ called = FALSE
    /\ pinned = NoPin

GeneratePlayDiagram ==
    /\ ~called
    /\ Call(formation, coverage, concept)
    /\ UNCHANGED pinned

Next == GeneratePlayDiagram

Spec == Init /\ [][Next]_vars

\* a process that calls again and again
InitSeq ==
    /\ formation = ""
    /\ coverage = ""
    /\ concept = None
    /\ svg = <<>>
    /\ base_positions = <<>>
    /\ positions = ""
    /\ called = FALSE
    /\ pinned = NoPin

\* a call in a sequence of calls; the caller may keep the arguments and the
\* output to compare later calls with
GeneratePlayDiagramSeq ==
    \E f \in SeqFormations, cov \in SeqCoverages, k \in SeqConcepts, keep \in BOOLEAN :
        /\ Call(f, cov, k)
        /\ pinned' =
             IF keep
             THEN [set |-> TRUE, formation |-> f, coverage |-> cov,
                   concept |-> k, svg |-> svg', adjusted_since |-> FALSE]
             ELSE IF /\ pinned.set
                     /\ cov \in AdjustedCoverages
                     /\ cov # pinned.coverage
                     /\ positions' = LayoutKey(base_positions_literal, pinned.formation)
             THEN [pinned EXCEPT !.adjusted_since = TRUE]
             ELSE pinned

NextSeq == GeneratePlayDiagramSeq

SpecSeq == InitSeq /\ [][NextSeq]_vars

-----------------------------------------------------------------------------
(* reading a returned document: the layer of an element is told from its      *)
(* markup, and a marker's position is recovered from its attributes          *)

ZoneColors ==
    {"rgba(255,165,0,0.3)", "rgba(255,69,0,0.3)", "rgba(255,140,0,0.3)"}

DefenseFills == {"#dc143c", "#ff6347", "#ff4500", "#ff8c00"}

IsFieldEl(e) ==
    \/ e.tag = "rect" /\ e.fill = "#2d5a27"
    \/ e.tag = "line" /\ e.stroke = "white"

IsZoneEl(e) == e.tag = "rect" /\ e.fill \in ZoneColors

IsSpotEl(e) == (e.tag = "circle" /\ e.r = 15) \/ e.tag = "text"

IsOffenseEl(e) ==
    \/ e.tag = "circle" /\ e.r = 10
    \/ e.tag = "rect" /\ e.fill = "#4169e1"

IsDefenseEl(e) == e.tag = "polygon" /\ e.fill \in DefenseFills

IsSafetyEl(e) == e.tag = "polygon" /\ e.fill = "#ff8c00"

IsOtherDefenseEl(e) == IsDefenseEl(e) /\ ~IsSafetyEl(e)

IsRouteEl(e) == e.tag = "line" /\ e.stroke = "#00bfff"

\* back to front: 1 field, 2 zones, 3 hotspots, 4 offense, 5 defense, 6 routes;
\* 0 is the opening of the document, 7 its closing tag, 99 anything else
LayerRank(e) ==
    IF e.tag \in {"svg", "defs"} THEN 0
    ELSE IF IsFieldEl(e) THEN 1
    ELSE IF IsZoneEl(e) THEN 2
    ELSE IF IsSpotEl(e) THEN 3
    ELSE IF IsOffenseEl(e) THEN 4
    ELSE IF IsDefenseEl(e) THEN 5
    ELSE IF IsRouteEl(e) THEN 6
    ELSE IF e.tag = "/svg" THEN 7
    ELSE 99

FieldLayer(s) == SelectSeq(s, IsFieldEl)
ZoneLayer(s) == SelectSeq(s, IsZoneEl)
SpotLayer(s) == SelectSeq(s, IsSpotEl)
OffenseLayer(s) == SelectSeq(s, IsOffenseEl)
DefenseLayer(s) == SelectSeq(s, IsDefenseEl)
RouteLayer(s) == SelectSeq(s, IsRouteEl)

\* the position a triangle was drawn for: its first point is (x, y - 10)
MarkerPosition(e) == <<e.points[1][1], e.points[1][2] + 10>>

MarkerPositions(ms) == [i \in 1..Len(ms) |-> MarkerPosition(ms[i])]

SafetyPositions(s) == MarkerPositions(SelectSeq(s, IsSafetyEl))

OtherDefensePositions(s) == MarkerPositions(SelectSeq(s, IsOtherDefenseEl))

\* the number of positions of the five role groups of a layout
GroupTotal(layout) ==
    Len(Get(layout, "DL", <<>>)) + Len(Get(layout, "LB", <<>>))
    + Len(Get(layout, "CB", <<>>)) + Len(Get(layout, "SLOT_CB", <<>>))
    + Len(Get(layout, "S", <<>>))

InCanvas(x, y) == 0 <= x /\ x <= CanvasWidth /\ 0 <= y /\ y <= CanvasHeight

\* the coordinates an element was drawn from lie in the canvas
DrawnInCanvas(e) ==
    IF IsZoneEl(e)
    THEN e.x >= 0 /\ e.y >= 0 /\ e.x + e.width <= CanvasWidth
         /\ e.y + e.height <= CanvasHeight
    ELSE IF IsOffenseEl(e) /\ e.tag = "circle" THEN InCanvas(e.cx, e.cy)
    ELSE IF IsOffenseEl(e) THEN InCanvas(e.x + 8, e.y + 8)
    ELSE IF IsDefenseEl(e) THEN InCanvas(MarkerPosition(e)[1], MarkerPosition(e)[2])
    ELSE IF e.tag = "circle" /\ e.r = 15 THEN InCanvas(e.cx, e.cy)
    ELSE IF IsRouteEl(e) THEN InCanvas(e.x1, e.y1) /\ InCanvas(e.x2, e.y2)
    ELSE TRUE

-----------------------------------------------------------------------------
(* the claims *)

\* C1: a call with a formation key outside the layout table returns exactly
\* what the same call with formation "4-3" returns, for every coverage and
\* concept: the 4-3 layout with the requested coverage's safeties.
C1_UnknownFormationDrawsDefault ==
    (called /\ formation \notin FormationKeys)
        => /\ svg = generate_play_diagram("4-3", coverage, concept)
           /\ OtherDefensePositions(svg) =
                base_positions_literal["4-3"]["DL"]
                \o base_positions_literal["4-3"]["LB"]
                \o base_positions_literal["4-3"]["CB"]

C1_Witness ==
    /\ called
    /\ formation = "goal_line"
    /\ coverage = "cover_2"
    /\ SafetyPositions(svg) = << <<120, 40>>, <<280, 40>> >>

\* C2: for a coverage key no coverage table names, whatever the formation, the
\* zone layer and the hotspot layer are empty and the safeties are drawn at
\* the base positions of the layout the formation resolved to.
C2_UnknownCoverageLeavesBase ==
    (called /\ coverage \notin CoverageKeys)
        => /\ ZoneLayer(svg) = <<>>
           /\ SpotLayer(svg) = <<>>
           /\ SafetyPositions(svg) = base_positions_literal[positions]["S"]

C2_Witness ==
    /\ called
    /\ coverage = "prevent"
    /\ formation = "dime"
    /\ SafetyPositions(svg) = << <<150, 45>>, <<250, 45>> >>

\* C3: for a concept key outside the route table, whatever the formation and
\* coverage, no route is drawn and the document is the one the call without a
\* concept returns.
C3_UnknownConceptDrawsNoRoute ==
    (called /\ concept \notin ConceptKeys)
        => /\ RouteLayer(svg) = <<>>
           /\ svg = generate_play_diagram(formation, coverage, None)

C3_Witness ==
    /\ called
    /\ concept = "wheel"
    /\ coverage = "cover_3"
    /\ Len(svg) > 0

\* C4: the elements of the document come in the order field, zones, hotspots,
\* offense, defense, routes: no element of a later layer precedes one of an
\* earlier layer, every layer that is always drawn is there, and routes are
\* drawn only when a concept is supplied.
C4_LayerOrder ==
    called
        => /\ \A i, j \in 1..Len(svg) : i < j => LayerRank(svg[i]) <= LayerRank(svg[j])
           /\ \A i \in 1..Len(svg) : LayerRank(svg[i]) # 99
           /\ FieldLayer(svg) # <<>>
           /\ OffenseLayer(svg) # <<>>
           /\ DefenseLayer(svg) # <<>>
           /\ (RouteLayer(svg) # <<>> => Truthy(concept))

C4_Witness ==
    /\ called
    /\ ZoneLayer(svg) # <<>>
    /\ SpotLayer(svg) # <<>>
    /\ RouteLayer(svg) # <<>>
    /\ formation = "nickel"

\* C5: for a known formation and a known coverage the document is not empty,
\* holds the field, and holds as many defensive markers as the role groups of
\* the layout have positions once the safeties are replaced.
C5_MarkerCount ==
    (called /\ formation \in FormationKeys /\ coverage \in CoverageKeys)
        => /\ svg # <<>>
           /\ FieldLayer(svg) = generate_field_svg
           /\ Len(DefenseLayer(svg)) = GroupTotal(base_positions[positions])
           /\ Len(DefenseLayer(svg)) =
                GroupTotal(base_positions_literal[formation])
                - Len(base_positions_literal[formation]["S"])
                + Len(SafetyPositions(svg))

C5_Witness ==
    /\ called
    /\ formation = "nickel"
    /\ coverage = "cover_0"
    /\ Len(DefenseLayer(svg)) = 11

\* C6: in a sequence of calls, a call with the arguments of an earlier call
\* returns the string that call returned, whatever ran in between.
C6_SameArgumentsSameOutput ==
    (pinned.set /\ formation = pinned.formation /\ coverage = pinned.coverage
        /\ concept = pinned.concept)
        => svg = pinned.svg

C6_Witness ==
    /\ pinned.set
    /\ pinned.adjusted_since
    /\ formation = pinned.formation
    /\ coverage = pinned.coverage
    /\ concept = pinned.concept
    /\ coverage = "prevent"
    /\ formation = "5-2"

\* C7: the adjustment does not change the layout table: after the call the
\* table's safety entry of the resolved formation holds the base positions.
C7_TableKeepsBaseSafeties ==
    called => base_positions[positions]["S"] = base_positions_literal[positions]["S"]

\* C8: ("dime", "cover_0", "mesh") draws the safeties at (180,95) and (220,95),
\* no zone, one hotspot labelled "Deep - no help!", and two routes, both of
\* type "cross".
C8_DimeCover0Mesh ==
    (called /\ formation = "dime" /\ coverage = "cover_0" /\ concept = "mesh")
        => /\ SafetyPositions(svg) = << <<180, 95>>, <<220, 95>> >>
           /\ ZoneLayer(svg) = <<>>
           /\ Len(SpotLayer(svg)) = 2
           /\ SpotLayer(svg)[1].tag = "circle"
           /\ SpotLayer(svg)[2].tag = "text"
           /\ SpotLayer(svg)[2].label = "Deep - no help!"
           /\ Len(RouteLayer(svg)) = 2
           /\ Len(routes["mesh"]) = 2
           /\ \A i \in 1..2 :
                /\ routes["mesh"][i].type = "cross"
                /\ RouteLayer(svg)[i] = RouteLine(routes["mesh"][i])

C8_Witness ==
    /\ called
    /\ formation = "dime"
    /\ coverage = "cover_0"
    /\ concept = "mesh"
    /\ Len(svg) > 0

\* C9: whatever the formation and the coverage, the line, linebacker,
\* cornerback and slot-corner markers are drawn at the base positions of the
\* resolved layout, as many and in the same order.
C9_OnlySafetiesMove ==
    called
        => OtherDefensePositions(svg) =
             Get(base_positions_literal[positions], "DL", <<>>)
             \o Get(base_positions_literal[positions], "LB", <<>>)
             \o Get(base_positions_literal[positions], "CB", <<>>)
             \o Get(base_positions_literal[positions], "SLOT_CB", <<>>)

C9_Witness ==
    /\ called
    /\ formation = "nickel"
    /\ coverage = "cover_0"
    /\ SafetyPositions(svg) # base_positions_literal["nickel"]["S"]

\* C10: every position, hotspot, route end and zone rectangle a document is
\* drawn from lies within the 400x250 canvas.
C10_InCanvas ==
    called => \A i \in 1..Len(svg) : DrawnInCanvas(svg[i])

C10_Witness ==
    /\ called
    /\ coverage = "cover_3"
    /\ concept = "flood"
    /\ Len(ZoneLayer(svg)) = 3
    /\ Len(RouteLayer(svg)) = 3

====
